---- MODULE Spec2Model ----
(***************************************************************************)
(* Model of exceltovisualization-interface.py: a Streamlit script that     *)
(* loads a spreadsheet of (age, gender, caste) rows and derives three      *)
(* aggregates: age-bucket counts, gender counts with percentages, and a    *)
(* caste-by-gender cross-tab of the top-N castes.                          *)
(*                                                                         *)
(* A Python str is a sequence of code points (so strip, exact-match        *)
(* replace and the sorted order of group keys are computed, not assumed).  *)
(* A missing cell (pandas NaN) is the value NaN.                           *)
(***************************************************************************)
EXTENDS Integers, Sequences, FiniteSets, TLC

VARIABLES uploaded_file, widgets, run, arg, ret

vars == <<uploaded_file, widgets, run, arg, ret>>

----------------------------------------------------------------------------
(* Bounds of the model *)

\* ages checked are -MaxAge .. MaxAge
MaxAge == 55
\* at most MaxPad whitespace characters on each side of a raw caste string
MaxPad == 2
\* at most MaxRows data rows in an uploaded file
MaxRows == 2
\* at most MaxPassRows rows in the files of SpecPass
MaxPassRows == 3
\* top-N is applied for N in 1 .. MaxTopN
MaxTopN == 3

----------------------------------------------------------------------------
(* Strings *)

NaN == <<-1>>

Whitespace == {32, 9}

\* the four caste spellings of the replace table, as code points
GURUNG == <<2327, 2369, 2352, 2369, 2329>>
GURUNGGA == <<2327, 2369, 2352, 2369, 2329, 2381, 2327>>
GURUUNGGA == <<2327, 2369, 2352, 2370, 2329, 2381, 2327>>
GURUUNG == <<2327, 2369, 2352, 2370, 2329>>

\* str.strip(): leading, then trailing whitespace removed
RECURSIVE lstrip(_)
lstrip(s) ==
    IF s # <<>> /\ Head(s) \in Whitespace THEN lstrip(Tail(s)) ELSE s

RECURSIVE rstrip(_)
rstrip(s) ==
    IF s # <<>> /\ s[Len(s)] \in Whitespace
    THEN rstrip(SubSeq(s, 1, Len(s) - 1))
    ELSE s

strip(s) == rstrip(lstrip(s))

\* Series.replace with a dict: a value equal to a key becomes the key's value
replace(s) ==
    IF s \in {GURUNGGA, GURUUNGGA, GURUUNG} THEN GURUNG ELSE s

\* variant: the table applied before the whitespace is stripped
CleanCasteReplaceFirst(x) == strip(replace(x))

\* one cell of  df[caste].astype(str).str.strip().replace({...})
CleanCaste(x) == replace(strip(x))

----------------------------------------------------------------------------
(* Age buckets *)

\* '<20', '21-35', '36-50', '51+' (8211 is the en dash of the source)
LT20 == <<60, 50, 48>>
B21_35 == <<50, 49, 8211, 51, 53>>
B36_50 == <<51, 54, 8211, 53, 48>>
GE51 == <<53, 49, 43>>

order == <<LT20, B21_35, B36_50, GE51>>

\* variant: the second limit exclusive
categorize_age_Exclusive35(age) ==
    IF age < 20 THEN LT20
    ELSE IF age < 35 THEN B21_35
    ELSE IF age <= 50 THEN B36_50
    ELSE GE51

\* variant: the intervals read off the bucket names, 20 in none of the
\* first three
categorize_age_Gap20(age) ==
    IF age < 20 THEN LT20
    ELSE IF 20 < age /\ age <= 35 THEN B21_35
    ELSE IF 35 < age /\ age <= 50 THEN B36_50
    ELSE GE51

categorize_age(age) ==
    IF age < 20 THEN LT20
    ELSE IF age <= 35 THEN B21_35
    ELSE IF age <= 50 THEN B36_50
    ELSE GE51

----------------------------------------------------------------------------
(* pandas and Python operations the script calls *)

Min(a, b) == IF a < b THEN a ELSE b

Range(s) == {s[i] : i \in DOMAIN s}

Perms(n) ==
    {p \in [1..n -> 1..n] : \A i, j \in 1..n : i # j => p[i] # p[j]}

\* Python's order of str: by code point, a proper prefix first
RECURSIVE StrLess(_, _)
StrLess(a, b) ==
    IF b = <<>> THEN FALSE
    ELSE IF a = <<>> THEN TRUE
    ELSE IF Head(a) # Head(b) THEN Head(a) < Head(b)
    ELSE StrLess(Tail(a), Tail(b))

\* the sorted sequence of a finite set of str
RECURSIVE Sorted(_)
Sorted(S) ==
    IF S = {} THEN <<>>
    ELSE LET m == CHOOSE x \in S : \A y \in S \ {x} : StrLess(x, y)
         IN  <<m>> \o Sorted(S \ {m})

\* the hash-table count behind value_counts: one entry per distinct
\* non-missing value, in order of first appearance
RECURSIVE Tally(_)
Tally(s) ==
    IF s = <<>> THEN <<>>
    ELSE LET t == Tally(SubSeq(s, 1, Len(s) - 1))
             x == s[Len(s)]
         IN  IF x = NaN THEN t
             ELSE IF \E i \in DOMAIN t : t[i].key = x
             THEN [i \in DOMAIN t |->
                     IF t[i].key = x
                     THEN [key |-> x, count |-> t[i].count + 1]
                     ELSE t[i]]
             ELSE Append(t, [key |-> x, count |-> 1])

\* Series.value_counts(): the tally sorted by descending count (missing
\* values dropped).  The order among equal counts is not specified by pandas
\* (it depends on the sort the build uses): every order is an outcome.
value_counts(s) ==
    LET t == Tally(s)
    IN  {[i \in DOMAIN t |-> t[p[i]]] :
            p \in {q \in Perms(Len(t)) :
                     \A i, j \in DOMAIN t :
                        i < j => t[q[i]].count >= t[q[j]].count}}

\* .reindex(labels, fill_value=0): one entry per label, in the labels' order
reindex(vc, labels) ==
    [i \in DOMAIN labels |->
        IF \E k \in DOMAIN vc : vc[k].key = labels[i]
        THEN [key |-> labels[i],
              count |-> (CHOOSE e \in Range(vc) : e.key = labels[i]).count]
        ELSE [key |-> labels[i], count |-> 0]]

\* .head(n)
head(s, n) == SubSeq(s, 1, Min(n, Len(s)))

\* .index.tolist() / .values.tolist() of a value_counts result
index(vc) == [i \in DOMAIN vc |-> vc[i].key]
values(vc) == [i \in DOMAIN vc |-> vc[i].count]

RECURSIVE sum(_)
sum(v) == IF v = <<>> THEN 0 ELSE Head(v) + sum(Tail(v))

\* round(v / den * 100, 1), in tenths of a percent: to the nearest tenth, a
\* tie to the even one (Python 3 round).  Exact arithmetic: a tie needs a total
\* that is a multiple of 16, beyond the files modelled.
round1(v, den) ==
    LET x == 1000 * v
        q == x \div den
        m == x % den
    IN  IF 2 * m > den THEN q + 1
        ELSE IF 2 * m = den THEN q + (q % 2)
        ELSE q

\* .groupby([caste, gender]).size(): the count of each (caste, gender) pair;
\* a row with a missing key is left out (groupby's dropna=True)
groupby_size(rows) ==
    LET kept == SelectSeq(rows, LAMBDA r : r.caste # NaN /\ r.gender # NaN)
    IN  Tally([i \in DOMAIN kept |-> <<kept[i].caste, kept[i].gender>>])

\* .unstack(fill_value=0): castes (sorted) as index, genders (sorted) as
\* columns, a pair that does not occur filled with 0
unstack(sz) ==
    LET idx == Sorted({e.key[1] : e \in Range(sz)})
        cols == Sorted({e.key[2] : e \in Range(sz)})
    IN  [index |-> idx,
         columns |-> cols,
         cell |-> [c \in Range(idx), g \in Range(cols) |->
                     IF \E e \in Range(sz) : e.key = <<c, g>>
                     THEN (CHOOSE e \in Range(sz) : e.key = <<c, g>>).count
                     ELSE 0]]

----------------------------------------------------------------------------
(* The script: one pass from the first line to the last *)

\* the three columns the script reads (umer, linga, jati in the source)
Columns == {"age", "gender", "caste"}

NoFile == [loaded |-> FALSE, columns |-> {}, rows |-> <<>>]

EmptyFrame == [index |-> <<>>, columns |-> <<>>, cell |-> <<>>]

\* the page and the script's names before the first statement has run
Blank ==
    [exc |-> "", warning |-> FALSE, rendered |-> {}, bound |-> {},
     df |-> <<>>, age_counts |-> <<>>, gender_counts |-> <<>>,
     percentages |-> <<>>, top_castes |-> <<>>, filtered |-> <<>>,
     grouped |-> EmptyFrame, charts |-> <<>>]

\* widget values of a widget that was not on the page in the last pass
Defaults ==
    [show_age |-> FALSE, show_gender |-> FALSE,
     gender_chart_type |-> "Pie Chart", show_caste |-> FALSE, top_n |-> 10]

\* a statement that raises ends the pass: no later statement runs
Raise(r, e) == {[r EXCEPT !.exc = e]}

\* df = pd.read_excel(...); df[caste] = df[caste].astype(str).str.strip().replace(...)
ReadAndClean(r, f) ==
    IF "caste" \notin f.columns
    THEN Raise([r EXCEPT !.df = f.rows, !.bound = @ \cup {"df"}], "KeyError")
    ELSE {[r EXCEPT !.df = [i \in DOMAIN f.rows |->
                               [f.rows[i] EXCEPT !.caste = CleanCaste(@)]],
                    !.bound = @ \cup {"df"}]}

\* variant: the counts as value_counts leaves them
age_counts_NoReindex(df) ==
    {vc : vc \in value_counts([i \in DOMAIN df |-> categorize_age(df[i].age)])}

\* df['Age Group'] = ...apply(categorize_age); value_counts().reindex(order, 0)
age_counts(df) ==
    {reindex(vc, order) :
        vc \in value_counts([i \in DOMAIN df |-> categorize_age(df[i].age)])}

AgeGroups(r, f) ==
    IF r.exc # "" THEN {r}
    ELSE IF "age" \notin f.columns
    THEN Raise(r, "KeyError")
    ELSE {[r EXCEPT !.age_counts = ac, !.bound = @ \cup {"age_counts"}] :
            ac \in age_counts(r.df)}

\* if st.checkbox("Show Age Group Pie Chart"): ... st.plotly_chart(fig)
AgePie(r, w) ==
    LET r1 == [r EXCEPT !.rendered = @ \cup {"show_age"}]
    IN  IF r.exc # "" THEN {r}
        ELSE IF ~w.show_age THEN {r1}
        ELSE {[r1 EXCEPT !.charts =
                  Append(@, [kind |-> "age_pie",
                             x |-> order,
                             traces |-> <<[name |-> <<>>,
                                           y |-> values(r.age_counts),
                                           text |-> values(r.age_counts)]>>])]}

\* variant: a missing gender counted as the string 'nan'
gender_counts_KeepNaN(df) ==
    value_counts([i \in DOMAIN df |->
                    IF df[i].gender = NaN THEN <<110, 97, 110>> ELSE df[i].gender])

\* gender_counts = df[gender].value_counts()
gender_counts(df) == value_counts([i \in DOMAIN df |-> df[i].gender])

\* variant: the total divided by whether or not there is a value
ZeroDivision_Hoisted(vals) == sum(vals) = 0

\* v / sum(values) is evaluated once for each v in values
ZeroDivision(vals) == \E i \in DOMAIN vals : sum(vals) = 0

\* percentages = [round(v / sum(values) * 100, 1) for v in values]
percentages(vals) == [i \in DOMAIN vals |-> round1(vals[i], sum(vals))]

\* if st.checkbox("Show Gender Distribution"): radio, counts, pie or bar
GenderChart(r, f, w) ==
    LET r1 == [r EXCEPT !.rendered = @ \cup {"show_gender"}]
        r2 == [r1 EXCEPT !.rendered = @ \cup {"gender_chart_type"}]
    IN  IF r.exc # "" THEN {r}
        ELSE IF ~w.show_gender THEN {r1}
        ELSE IF "gender" \notin f.columns THEN Raise(r2, "KeyError")
        ELSE UNION {
               LET r3 == [r2 EXCEPT !.gender_counts = gc,
                                    !.bound = @ \cup {"gender_counts"}]
               IN  IF ZeroDivision(values(gc))
                   THEN Raise(r3, "ZeroDivisionError")
                   ELSE {[r3 EXCEPT
                            !.percentages = percentages(values(gc)),
                            !.bound = @ \cup {"percentages"},
                            !.charts =
                               Append(@, [kind |-> IF w.gender_chart_type = "Pie Chart"
                                                   THEN "gender_pie"
                                                   ELSE "gender_bar",
                                          x |-> index(gc),
                                          traces |-> <<[name |-> <<>>,
                                                        y |-> values(gc),
                                                        text |-> percentages(values(gc))]>>])]}
               : gc \in gender_counts(r.df)}

\* variant: one caste fewer
top_castes_OneShort(df, n) ==
    {index(head(vc, n - 1)) : vc \in value_counts([i \in DOMAIN df |-> df[i].caste])}

\* variant: the least frequent first
top_castes_Ascending(df, n) ==
    {index(head([i \in DOMAIN vc |-> vc[Len(vc) + 1 - i]], n)) :
        vc \in value_counts([i \in DOMAIN df |-> df[i].caste])}

\* top_castes = df[caste].value_counts().head(top_n).index.tolist()
top_castes(df, n) ==
    {index(head(vc, n)) : vc \in value_counts([i \in DOMAIN df |-> df[i].caste])}

\* filtered = df[df[caste].isin(top_castes)]
filtered(df, top) == SelectSeq(df, LAMBDA row : row.caste \in Range(top))

\* grouped = filtered.groupby([caste, gender]).size().unstack(fill_value=0)
grouped(rows) == unstack(groupby_size(rows))

\* if st.checkbox("Show Castes by Gender"): slider, top-N cross-tab, bars
CasteChart(r, f, w) ==
    LET r1 == [r EXCEPT !.rendered = @ \cup {"show_caste"}]
        r2 == [r1 EXCEPT !.rendered = @ \cup {"top_n"}]
    IN  IF r.exc # "" THEN {r}
        ELSE IF ~w.show_caste THEN {r1}
        ELSE UNION {
               LET fl == filtered(r.df, top)
                   r3 == [r2 EXCEPT !.top_castes = top, !.filtered = fl,
                                    !.bound = @ \cup {"top_castes", "filtered"}]
               IN  IF "gender" \notin f.columns THEN Raise(r3, "KeyError")
                   ELSE LET g == grouped(fl)
                        IN  {[r3 EXCEPT
                                !.grouped = g,
                                !.bound = @ \cup {"grouped"},
                                !.charts =
                                   Append(@, [kind |-> "caste_bar",
                                              x |-> g.index,
                                              traces |->
                                                 [k \in DOMAIN g.columns |->
                                                    LET col == [i \in DOMAIN g.index |->
                                                                  g.cell[g.index[i], g.columns[k]]]
                                                    IN  [name |-> g.columns[k],
                                                         y |-> col,
                                                         text |-> col]]])]}
               : top \in top_castes(r.df, w.top_n)}

\* variant: a pass that starts from what the last pass left
RunScript_Stale(f, w) ==
    LET start == [run EXCEPT !.exc = "", !.warning = FALSE, !.rendered = {}]
        s1 == ReadAndClean(start, f)
        s2 == UNION {AgeGroups(r, f) : r \in s1}
        s3 == UNION {AgePie(r, w) : r \in s2}
        s4 == UNION {GenderChart(r, f, w) : r \in s3}
    IN  IF ~f.loaded
        THEN {[start EXCEPT !.warning = TRUE]}
        ELSE UNION {CasteChart(r, f, w) : r \in s4}

\* the whole script, run on file f with the session's widget values w:
\* if uploaded_file: ... else: st.warning(...)
RunScript(f, w) ==
    LET s1 == ReadAndClean(Blank, f)
        s2 == UNION {AgeGroups(r, f) : r \in s1}
        s3 == UNION {AgePie(r, w) : r \in s2}
        s4 == UNION {GenderChart(r, f, w) : r \in s3}
    IN  IF ~f.loaded
        THEN {[Blank EXCEPT !.warning = TRUE]}
        ELSE UNION {CasteChart(r, f, w) : r \in s4}

\* Streamlit keeps the value of a widget only while the script calls it: a
\* widget the pass did not put on the page is back at its initial value
Retain(w, shown) ==
    [k \in DOMAIN w |-> IF k \in shown THEN w[k] ELSE Defaults[k]]

\* one interaction: the session holds file f and widget values w, and the
\* script runs from the top
Rerun(f, w) ==
    \E r \in RunScript(f, w) :
        /\ uploaded_file' = f
        /\ run' = r
        /\ widgets' = Retain(w, r.rendered)
        /\ UNCHANGED <<arg, ret>>

----------------------------------------------------------------------------
(* Inputs *)

SeqUpTo(S, n) == UNION {[1..k -> S] : k \in 0..n}

M == <<77>>
F == <<70>>
A == <<65>>
B == <<66>>
C == <<67>>

\* rows of the files uploaded in Spec: an age in each bucket, both genders
\* and a missing one, a caste spelling the replace table corrects
FileRows ==
    {[age |-> 19, gender |-> M, caste |-> A],
     [age |-> 20, gender |-> F, caste |-> <<32>> \o GURUNGGA],
     [age |-> 36, gender |-> F, caste |-> GURUNG],
     [age |-> 51, gender |-> NaN, caste |-> A]}

\* well-formed files, and files that lack one or more of the three columns
Files ==
    {[loaded |-> TRUE, columns |-> Columns, rows |-> rs] :
        rs \in SeqUpTo(FileRows, MaxRows)}
    \cup
    {[loaded |-> TRUE, columns |-> cs, rows |-> <<>>] :
        cs \in (SUBSET Columns) \ {Columns}}

\* slider(min_value=5, max_value=50, value=10)
min_value == 5
max_value == 50

\* the slider positions tried: its two ends and its initial value
SliderStops == {min_value, Defaults.top_n, max_value}

----------------------------------------------------------------------------
(* Spec: the session. Every interaction is a full run of the script. *)

\* a new session: the script has run once, with no file
Init ==
    /\ uploaded_file = NoFile
    /\ widgets = Defaults
    /\ run = [Blank EXCEPT !.warning = TRUE]
    /\ arg = <<>>
    /\ ret = <<>>

\* st.file_uploader: the user uploads (or replaces) a file
Upload == \E f \in Files : Rerun(f, widgets)

\* st.file_uploader: the user removes the file
RemoveFile == uploaded_file.loaded /\ Rerun(NoFile, widgets)

ToggleAge ==
    /\ "show_age" \in run.rendered
    /\ Rerun(uploaded_file, [widgets EXCEPT !.show_age = ~@])

ToggleGender ==
    /\ "show_gender" \in run.rendered
    /\ Rerun(uploaded_file, [widgets EXCEPT !.show_gender = ~@])

ChooseChartType ==
    /\ "gender_chart_type" \in run.rendered
    /\ \E t \in {"Pie Chart", "Bar Chart"} \ {widgets.gender_chart_type} :
          Rerun(uploaded_file, [widgets EXCEPT !.gender_chart_type = t])

ToggleCaste ==
    /\ "show_caste" \in run.rendered
    /\ Rerun(uploaded_file, [widgets EXCEPT !.show_caste = ~@])

SlideTopN ==
    /\ "top_n" \in run.rendered
    /\ \E n \in SliderStops \ {widgets.top_n} :
          Rerun(uploaded_file, [widgets EXCEPT !.top_n = n])

Next ==
    \/ Upload
    \/ RemoveFile
    \/ ToggleAge
    \/ ToggleGender
    \/ ChooseChartType
    \/ ToggleCaste
    \/ SlideTopN

Spec == Init /\ [][Next]_vars

----------------------------------------------------------------------------
(* SpecAge: categorize_age applied to a pair of ages *)

Ages == (0 - MaxAge) .. MaxAge

AgeInit ==
    /\ arg \in Ages \X Ages
    /\ ret = <<>>
    /\ uploaded_file = NoFile
    /\ widgets = Defaults
    /\ run = Blank

ApplyCategorize ==
    /\ ret = <<>>
    /\ ret' = <<categorize_age(arg[1]), categorize_age(arg[2])>>
    /\ UNCHANGED <<arg, uploaded_file, widgets, run>>

SpecAge == AgeInit /\ [][ApplyCategorize]_vars

----------------------------------------------------------------------------
(* SpecNorm: the caste cleaning applied to a raw string, and again to its
   result *)

Pads == SeqUpTo(Whitespace, MaxPad)

\* the four spellings, the empty string, "A", "A B", and a spelling of the
\* table followed by another letter
Cores ==
    {GURUNG, GURUNGGA, GURUUNGGA, GURUUNG, <<>>, A, <<65, 32, 66>>,
     GURUUNG \o A}

RawStrings == {l \o c \o r : l \in Pads, c \in Cores, r \in Pads}

NormInit ==
    /\ arg \in RawStrings
    /\ ret = <<>>
    /\ uploaded_file = NoFile
    /\ widgets = Defaults
    /\ run = Blank

ApplyCleanCaste ==
    /\ Len(ret) < 2
    /\ ret' = Append(ret, CleanCaste(IF ret = <<>> THEN arg ELSE ret[Len(ret)]))
    /\ UNCHANGED <<arg, uploaded_file, widgets, run>>

SpecNorm == NormInit /\ [][ApplyCleanCaste]_vars

----------------------------------------------------------------------------
(* SpecPass: one pass over a file with the three charts on, for every N from
   1.  (The slider of the page offers 5 to 50 only; the selection itself is
   defined for every N, and an N below the number of distinct castes needs
   N + 1 castes in the file.) *)

PassRows ==
    [age : {19, 36}, gender : {M, F, NaN}, caste : {A, B, GURUUNG \o <<32>>}]

\* castes A, A, B, C, C, C
ExampleRows ==
    [i \in 1..6 |->
        [age |-> 36, gender |-> M, caste |-> <<A, A, B, C, C, C>>[i]]]

PassInputs ==
    {[rows |-> rs, n |-> n] : rs \in SeqUpTo(PassRows, MaxPassRows), n \in 1..MaxTopN}
    \cup {[rows |-> ExampleRows, n |-> 2]}

PassInit ==
    /\ arg \in PassInputs
    /\ ret = <<>>
    /\ uploaded_file = [loaded |-> TRUE, columns |-> Columns, rows |-> arg.rows]
    /\ widgets = [show_age |-> TRUE, show_gender |-> TRUE,
                  gender_chart_type |-> "Pie Chart", show_caste |-> TRUE,
                  top_n |-> arg.n]
    /\ run = Blank

ApplyPass ==
    /\ run = Blank
    /\ Rerun(uploaded_file, widgets)

SpecPass == PassInit /\ [][ApplyPass]_vars

----------------------------------------------------------------------------
(* Properties *)

\* the position of a bucket in the fixed order
BucketIndex(b) == CHOOSE i \in DOMAIN order : order[i] = b

\* C1 as stated: a < 20 gives '<20', 20 < a <= 35 gives '21-35',
\* 35 < a <= 50 gives '36-50', and every other age gives '51+'.
C1_IntervalsAsStated ==
    ret # <<>> =>
        LET a == arg[1]
            b == ret[1]
        IN  /\ a < 20 => b = LT20
            /\ (20 < a /\ a <= 35) => b = B21_35
            /\ (35 < a /\ a <= 50) => b = B36_50
            /\ (~(a < 20) /\ ~(20 < a /\ a <= 35) /\ ~(35 < a /\ a <= 50))
                  => b = GE51

\* C1, amended: a < 20 gives '<20', 20 <= a <= 35 gives '21-35',
\* 35 < a <= 50 gives '36-50', and a > 50 gives '51+'.
C1_Intervals ==
    ret # <<>> =>
        LET a == arg[1]
            b == ret[1]
        IN  /\ a < 20 => b = LT20
            /\ (20 <= a /\ a <= 35) => b = B21_35
            /\ (35 < a /\ a <= 50) => b = B36_50
            /\ a > 50 => b = GE51

\* age 20 has been categorized, as '21-35'
C1_Witness == ret # <<>> /\ arg[1] = 20 /\ ret[1] = B21_35

\* C2: every age gets exactly one of the four buckets, and for ages a <= b
\* the bucket of a is not after the bucket of b in the fixed order.
C2_Monotonic ==
    ret # <<>> =>
        /\ \A k \in 1..2 :
              Cardinality({i \in DOMAIN order : order[i] = ret[k]}) = 1
        /\ arg[1] <= arg[2] => BucketIndex(ret[1]) <= BucketIndex(ret[2])

\* ages 20 and 21, one on each side of the limit the bucket names leave open
C2_Witness ==
    /\ ret # <<>>
    /\ arg = <<20, 21>>
    /\ BucketIndex(ret[1]) = 2
    /\ BucketIndex(ret[2]) = 2

\* C3: age_counts holds the four buckets in the fixed order, an absent
\* bucket with count zero, and its counts add up to the number of records.
C3_AgeCounts ==
    "age_counts" \in run.bound =>
        /\ index(run.age_counts) = order
        /\ \A i \in DOMAIN run.age_counts : run.age_counts[i].count >= 0
        /\ sum(values(run.age_counts)) = Len(uploaded_file.rows)

\* three records, two buckets absent
C3_Witness ==
    /\ "age_counts" \in run.bound
    /\ values(run.age_counts) = <<2, 0, 1, 0>>

\* C4: gender_counts has a key only for a gender present in the data, each
\* with a count of at least one, and its counts add up to the number of
\* records whose gender is not missing.
C4_GenderCounts ==
    "gender_counts" \in run.bound =>
        LET gc == run.gender_counts
            rows == uploaded_file.rows
        IN  /\ \A i \in DOMAIN gc :
                  /\ gc[i].count >= 1
                  /\ gc[i].key # NaN
                  /\ \E j \in DOMAIN rows : rows[j].gender = gc[i].key
                  /\ \A k \in DOMAIN gc : gc[k].key = gc[i].key => k = i
            /\ sum(values(gc)) =
                  Cardinality({j \in DOMAIN rows : rows[j].gender # NaN})

\* three records, one without a gender, the other two of the same gender
C4_Witness ==
    /\ "gender_counts" \in run.bound
    /\ Len(uploaded_file.rows) = 3
    /\ \E j \in DOMAIN uploaded_file.rows : uploaded_file.rows[j].gender = NaN
    /\ values(run.gender_counts) = <<2>>

\* C5: the caste cleaning is idempotent: cleaning a cleaned string changes
\* nothing.
C5_Idempotent == Len(ret) = 2 => ret[2] = ret[1]

\* a spelling of the table between whitespace, cleaned twice
C5_Witness ==
    /\ Len(ret) = 2
    /\ arg = <<32>> \o GURUUNGGA \o <<9>>
    /\ ret[1] = GURUNG

\* C6: every caste selected as top-N is a key of the cross-tab, with a count
\* for every gender column.
C6_SelectedCastesInCrossTab ==
    "grouped" \in run.bound =>
        \A c \in Range(run.top_castes) :
            /\ c \in Range(run.grouped.index)
            /\ \A g \in Range(run.grouped.columns) :
                  <<c, g>> \in DOMAIN run.grouped.cell

\* C7 as stated: with a file of zero data rows and the gender chart on, the
\* pass fails with a division by zero.
C7_EmptyFileFails ==
    (/\ uploaded_file.loaded
     /\ uploaded_file.columns = Columns
     /\ uploaded_file.rows = <<>>
     /\ widgets.show_gender)
        => run.exc = "ZeroDivisionError"

\* C7, amended: with a file of zero data rows and the gender chart on, no
\* division is performed: percentages is the empty list, the pass completes
\* and shows a gender chart with no category.
C7_EmptyFileNoDivision ==
    (/\ uploaded_file.loaded
     /\ uploaded_file.columns = Columns
     /\ uploaded_file.rows = <<>>
     /\ widgets.show_gender)
        => /\ run.exc = ""
           /\ "percentages" \in run.bound
           /\ run.percentages = <<>>
           /\ \E i \in DOMAIN run.charts :
                 /\ run.charts[i].kind \in {"gender_pie", "gender_bar"}
                 /\ run.charts[i].x = <<>>

\* an empty file is loaded and the gender chart is on
C7_Witness ==
    /\ uploaded_file.loaded
    /\ uploaded_file.columns = Columns
    /\ uploaded_file.rows = <<>>
    /\ widgets.show_gender
    /\ "gender_counts" \in run.bound

\* C8: top-N over the cleaned caste column selects min(N, D) distinct castes,
\* none of them less frequent than a caste left out; castes A, A, B, C, C, C
\* with N = 2 select C and A.
C8_TopN ==
    "top_castes" \in run.bound =>
        LET top == run.top_castes
            all == {run.df[i].caste : i \in DOMAIN run.df}
            freq(c) == Cardinality({i \in DOMAIN run.df : run.df[i].caste = c})
        IN  /\ Len(top) = Min(widgets.top_n, Cardinality(all))
            /\ Cardinality(Range(top)) = Len(top)
            /\ Range(top) \subseteq all
            /\ \A c \in all \ Range(top) : \A t \in Range(top) : freq(c) <= freq(t)
            /\ uploaded_file.rows = ExampleRows => Range(top) = {C, A}

\* the example: A, A, B, C, C, C with N = 2
C8_Witness ==
    /\ "top_castes" \in run.bound
    /\ uploaded_file.rows = ExampleRows
    /\ widgets.top_n = 2
    /\ run.top_castes = <<C, A>>

\* C9: with N at least the number of distinct castes, every caste is
\* selected and the caste restriction removes no row.
C9_AllCastes ==
    ("filtered" \in run.bound
     /\ widgets.top_n >= Cardinality({run.df[i].caste : i \in DOMAIN run.df}))
        => /\ Range(run.top_castes) = {run.df[i].caste : i \in DOMAIN run.df}
           /\ run.filtered = run.df
           /\ Len(run.filtered) = Len(uploaded_file.rows)

\* three castes, N = 3
C9_Witness ==
    /\ "filtered" \in run.bound
    /\ widgets.top_n = 3
    /\ Cardinality(Range(run.top_castes)) = 3
    /\ Len(run.filtered) = 3

\* the charts a pass from scratch over the loaded file shows, by kind and in
\* page order, for the widget values of the session
ExpectedKinds ==
    LET cols == uploaded_file.columns
    IN  (IF {"caste", "age"} \subseteq cols /\ widgets.show_age
         THEN <<"age_pie">> ELSE <<>>)
        \o
        (IF Columns \subseteq cols /\ widgets.show_gender
         THEN <<IF widgets.gender_chart_type = "Pie Chart"
                THEN "gender_pie" ELSE "gender_bar">>
         ELSE <<>>)
        \o
        (IF Columns \subseteq cols /\ widgets.show_caste
         THEN <<"caste_bar">> ELSE <<>>)

\* a chart shows the counts of the rows of the loaded file, and of no other
ChartOfLoadedFile(ch) ==
    LET rows == uploaded_file.rows
        castes == {CleanCaste(rows[j].caste) : j \in DOMAIN rows}
        top == Range(run.top_castes)
    IN  CASE ch.kind = "age_pie" ->
                /\ ch.x = order
                /\ Len(ch.traces) = 1
                /\ \A k \in DOMAIN order :
                      ch.traces[1].y[k] =
                         Cardinality({j \in DOMAIN rows :
                                        categorize_age(rows[j].age) = order[k]})
          [] ch.kind \in {"gender_pie", "gender_bar"} ->
                /\ Range(ch.x) = {rows[j].gender : j \in DOMAIN rows} \ {NaN}
                /\ Len(ch.traces) = 1
                /\ \A k \in DOMAIN ch.x :
                      ch.traces[1].y[k] =
                         Cardinality({j \in DOMAIN rows : rows[j].gender = ch.x[k]})
          [] ch.kind = "caste_bar" ->
                /\ top \subseteq castes
                /\ Cardinality(top) = Min(widgets.top_n, Cardinality(castes))
                /\ Range(ch.x) =
                      {CleanCaste(rows[j].caste) :
                          j \in {i \in DOMAIN rows :
                                   /\ rows[i].gender # NaN
                                   /\ CleanCaste(rows[i].caste) \in top}}
                /\ \A t \in DOMAIN ch.traces : \A k \in DOMAIN ch.x :
                      ch.traces[t].y[k] =
                         Cardinality({j \in DOMAIN rows :
                                        /\ CleanCaste(rows[j].caste) = ch.x[k]
                                        /\ rows[j].gender = ch.traces[t].name})

\* C10: after any sequence of interactions the page shows what one pass from
\* scratch over the loaded file and the current widget values shows: the
\* charts whose boxes are checked, each with the counts of the loaded file,
\* nothing of an earlier pass; with no file, the warning and nothing else.
C10_PageIsFreshPass ==
    /\ ~uploaded_file.loaded =>
          /\ run = [Blank EXCEPT !.warning = TRUE]
          /\ widgets = Defaults
    /\ uploaded_file.loaded =>
          /\ ~run.warning
          /\ [i \in DOMAIN run.charts |-> run.charts[i].kind] = ExpectedKinds
          /\ \A i \in DOMAIN run.charts : ChartOfLoadedFile(run.charts[i])
          /\ run.exc = "" <=>
                \/ uploaded_file.columns = Columns
                \/ /\ {"caste", "age"} \subseteq uploaded_file.columns
                   /\ ~widgets.show_gender
                   /\ ~widgets.show_caste
          /\ "age_counts" \in run.bound =>
                sum(values(run.age_counts)) = Len(uploaded_file.rows)
          /\ "gender_counts" \in run.bound <=>
                (Columns \subseteq uploaded_file.columns /\ widgets.show_gender)
          /\ "grouped" \in run.bound <=>
                (Columns \subseteq uploaded_file.columns /\ widgets.show_caste)

\* a file of two rows is loaded, the three charts are shown, the gender
\* chart as bars and the slider at its upper end
C10_Witness ==
    /\ uploaded_file.loaded
    /\ Len(uploaded_file.rows) = 2
    /\ Len(run.charts) = 3
    /\ widgets.gender_chart_type = "Bar Chart"
    /\ widgets.top_n = max_value
    /\ run.charts[3].x # <<>>

====
